---- MODULE Spec2Model ----
(***************************************************************************)
(* ThreeStoreProvider (src/index.js): a React provider that mirrors        *)
(* key/value pairs in the URL query string, a React state object and       *)
(* window.localStorage, with the three operations store, getStored and     *)
(* clearStored and a cleanup that runs when the provider unmounts.         *)
(***************************************************************************)
EXTENDS Integers, Sequences, FiniteSets, TLC

\* ------------------------------------------------------------------ bounds
\* Number of store / getStored / clearStored calls explored in one behaviour.
MaxCalls == 2

\* ------------------------------------------------------------------ values
\* Keys and values are strings (storable is an Array[String], line 64).
\* The empty string is a value like any other.
Keys == {"a", "b"}
Values == {"", "1"}

\* JavaScript's null and undefined, kept apart from every string value.
Null == "<null>"
Undefined == "<undefined>"

\* JavaScript truthiness of the values met here, and the || operator.
Truthy(x) == x \notin {Null, Undefined, ""}
JsOr(x, y) == IF Truthy(x) THEN x ELSE y

\* A JavaScript object used as a map: a function whose domain is its keys.
EmptyObject == [k \in {} |-> ""]
ObjectKeys(obj) == DOMAIN obj
Prop(obj, key) == IF key \in DOMAIN obj THEN obj[key] ELSE Undefined
\* {[key]: value}: the object literal with the spread left out.
OnlyEntry(obj, key, value) == [k \in {key} |-> value]
\* {[key]: value, ...obj}: the spread written last, so an old entry wins.
SpreadLast(obj, key, value) ==
    [k \in (DOMAIN obj) \cup {key} |-> IF k \in DOMAIN obj THEN obj[k] ELSE value]
\* {...obj, [key]: value} and a copy with `delete copy[key]`.
Spread(obj, key, value) ==
    [k \in (DOMAIN obj) \cup {key} |-> IF k = key THEN value ELSE obj[k]]
\* copy[key] = undefined in the place of `delete copy[key]`: the key stays.
WithUndefined(obj, key) == Spread(obj, key, Undefined)
Without(obj, key) == [k \in (DOMAIN obj) \ {key} |-> obj[k]]

\* window.localStorage: getItem answers null for a key it does not hold.
GetItem(items, key) == IF key \in DOMAIN items THEN items[key] ELSE Null
SetItem(items, key, value) ==
    [k \in (DOMAIN items) \cup {key} |-> IF k = key THEN value ELSE items[k]]
RemoveItem(items, key) == [k \in (DOMAIN items) \ {key} |-> items[k]]

\* ------------------------------------------------- URLSearchParams (a list)
\* The query string is an ordered list of <<name, value>> pairs in which a
\* name may occur more than once.

RECURSIVE FirstIndex(_, _, _)
FirstIndex(params, name, i) ==
    IF i > Len(params) THEN 0
    ELSE IF params[i][1] = name THEN i
    ELSE FirstIndex(params, name, i + 1)

\* url.searchParams.get(name): the first value of that name, or null.
SearchParamsGet(params, name) ==
    LET i == FirstIndex(params, name, 1)
    IN IF i = 0 THEN Null ELSE params[i][2]

\* A delete that stops at the first pair of that name.
SearchParamsDeleteFirst(params, name) ==
    LET i == FirstIndex(params, name, 1)
    IN IF i = 0 THEN params
       ELSE SubSeq(params, 1, i - 1) \o SubSeq(params, i + 1, Len(params))

\* url.searchParams.delete(name): every pair of that name goes.
SearchParamsDelete(params, name) ==
    SelectSeq(params, LAMBDA p : p[1] # name)

\* url.searchParams.append(name, value) in the place of set.
SearchParamsAppend(params, name, value) == Append(params, <<name, value>>)

\* url.searchParams.set(name, value): the first pair of that name takes the
\* value and the others go; with no such pair, one is appended.
SearchParamsSet(params, name, value) ==
    LET i == FirstIndex(params, name, 1)
    IN IF i = 0 THEN Append(params, <<name, value>>)
       ELSE SubSeq(params, 1, i - 1) \o <<(<<name, value>>)>>
            \o SearchParamsDelete(SubSeq(params, i + 1, Len(params)), name)

\* url.searchParams.delete(key) for each key of a list of keys (forEach).
DeleteEach(params, keys) ==
    SelectSeq(params, LAMBDA p : p[1] \notin keys)

\* ------------------------------------------------------------------- state
VARIABLES
    hasWindow,                 \* typeof window !== 'undefined'
    skipUrl,                   \* props of the provider, as first rendered
    skipState,
    skipLocalStore,
    clearUrlParamsOnUnmount,
    clearLocalStoreOnUnmount,
    searchParams,              \* query parameters of window.location.href
    historyLength,             \* entries of the session history
    storage,                   \* the React state: the current storage object
    queue,                     \* setStorage updaters waiting for a render
    localStorage,              \* window.localStorage
    mounted,                   \* the provider is in the tree
    unmountError,              \* the cleanup raised an exception
    last,                      \* the latest call of store/getStored/clearStored
    nCalls                     \* how many such calls were made

props == <<skipUrl, skipState, skipLocalStore,
           clearUrlParamsOnUnmount, clearLocalStoreOnUnmount>>
vars == <<hasWindow, props, searchParams, historyLength, storage, queue,
          localStorage, mounted, unmountError, last, nCalls>>

\* The per-call options of store: an object that gives some of the three
\* flags a boolean. A call with no options gets {} (`options ?? {}`, line 69).
\* The calls explored give no flag, one flag, or all three.
OptionFlags == {"skipUrl", "skipState", "skipLocalStore"}
OptionObjects ==
    UNION {[D -> BOOLEAN] :
           D \in {{}} \cup {{f} : f \in OptionFlags} \cup {OptionFlags}}
NoOptions == EmptyObject

\* `!options.flag`: true for a flag that is absent and for one that is false.
Not(options, flag) == ~(flag \in DOMAIN options /\ options[flag])

\* The record kept of a call: its arguments, whether it threw, what it returned.
NoCall ==
    [op |-> "none", key |-> "", value |-> "", options |-> NoOptions,
     threw |-> FALSE, returned |-> Undefined]
Call(op, key, value, options, threw, returned) ==
    [op |-> op, key |-> key, value |-> value, options |-> options,
     threw |-> threw, returned |-> returned]

\* ----------------------------------------------------------- initial state
\* What the address and localStorage may hold when the provider mounts.
InitialQueries ==
    { <<>>,
      <<(<<"a", "1">>)>>,
      <<(<<"a", "">>), (<<"b", "1">>), (<<"a", "1">>)>> }
InitialLocalStorages ==
    { EmptyObject,
      [k \in {"a"} |-> "1"],
      [k \in {"a", "b"} |-> IF k = "a" THEN "" ELSE "1"] }

\* useState({}) (line 40).
InitialStorage == EmptyObject

Init ==
    /\ hasWindow \in BOOLEAN
    /\ skipUrl \in BOOLEAN
    /\ skipState \in BOOLEAN
    /\ skipLocalStore \in BOOLEAN
    /\ clearUrlParamsOnUnmount \in BOOLEAN
    /\ clearLocalStoreOnUnmount \in BOOLEAN
    /\ searchParams \in (IF hasWindow THEN InitialQueries ELSE {<<>>})
    /\ historyLength = (IF hasWindow THEN 1 ELSE 0)
    /\ localStorage \in (IF hasWindow THEN InitialLocalStorages ELSE {EmptyObject})
    /\ storage = InitialStorage
    /\ queue = <<>>
    /\ mounted = TRUE
    /\ unmountError = FALSE
    /\ last = NoCall
    /\ nCalls = 0

\* ------------------------------------------------------- closures and React
\* store, getStored, clearStored and the effect's cleanup are created by
\* useCallback(..., []) and useEffect(..., []): the functions of the first
\* render are the ones kept, and the `storage` they read is the first
\* render's state.
ClosureStorage == InitialStorage

\* setStorage(storage => ({...storage, [key]: value})) and
\* setStorage(storage => { delete newStorage[key] }): the updaters.
MergeUpdater(key, value) == [type |-> "merge", key |-> key, value |-> value]
DeleteUpdater(key) == [type |-> "delete", key |-> key, value |-> Null]
ApplyUpdater(obj, u) ==
    IF u.type = "merge" THEN Spread(obj, u.key, u.value) ELSE Without(obj, u.key)

\* React runs the queued updaters in the order they were queued.
RECURSIVE ApplyQueue(_, _)
ApplyQueue(obj, q) ==
    IF q = <<>> THEN obj ELSE ApplyQueue(ApplyUpdater(obj, Head(q)), Tail(q))

\* history.replaceState in the place of pushState: no new entry.
ReplaceState(params) ==
    /\ searchParams' = params
    /\ historyLength' = historyLength

\* history.pushState({}, '', url): a new entry, and the address becomes url.
PushState(params) ==
    /\ searchParams' = params
    /\ historyLength' = historyLength + 1

\* ------------------------------------------------------------------- store
\* The three conditions of store (lines 70, 75, 79).
\* A store whose per-call flag, when given, replaces the provider's.
StoreWritesUrlOverride(options) ==
    /\ hasWindow
    /\ IF "skipUrl" \in DOMAIN options THEN ~options["skipUrl"] ELSE ~skipUrl
StoreWritesUrl(options) ==
    ~skipUrl /\ Not(options, "skipUrl") /\ hasWindow
StoreWritesState(options) ==
    ~skipState /\ Not(options, "skipState")
\* A store that reads the provider's skipLocalStore and not the call's.
StoreWritesLocalStoreByPropOnly(options) == ~skipLocalStore
StoreWritesLocalStore(options) ==
    ~skipLocalStore /\ Not(options, "skipLocalStore")

\* Line 80 names `window` with no guard: without a window it throws a
\* ReferenceError, after the updater of line 76 was queued.
StoreThrows(options) == StoreWritesLocalStore(options) /\ ~hasWindow

Store(key, value, options) ==
    /\ mounted
    /\ nCalls < MaxCalls
    /\ IF StoreWritesUrl(options)
       THEN PushState(SearchParamsSet(searchParams, key, value))
       ELSE UNCHANGED <<searchParams, historyLength>>
    /\ queue' = IF StoreWritesState(options)
                THEN Append(queue, MergeUpdater(key, value))
                ELSE queue
    /\ localStorage' = IF StoreWritesLocalStore(options) /\ hasWindow
                       THEN SetItem(localStorage, key, value)
                       ELSE localStorage
    /\ last' = Call("store", key, value, options, StoreThrows(options), Undefined)
    /\ nCalls' = nCalls + 1
    /\ UNCHANGED <<hasWindow, props, storage, mounted, unmountError>>

\* --------------------------------------------------------------- getStored
\* A getStored that asks localStorage before the URL.
GetStoredLocalStoreFirst(key) ==
    IF hasWindow /\ key \in DOMAIN localStorage
    THEN localStorage[key]
    ELSE IF hasWindow THEN SearchParamsGet(searchParams, key) ELSE Null

GetStored(key) ==
    IF hasWindow
    THEN SearchParamsGet(searchParams, key)
    ELSE LET stateValue == Prop(ClosureStorage, key)
             localStoreValue ==
                 IF hasWindow
                 THEN GetItem(localStorage, key)
                 ELSE Undefined
         IN JsOr(JsOr(stateValue, localStoreValue), Null)

\* A getStored that also caches what it read, when truthy, in the state.
CallGetStoredCaching(key) ==
    /\ mounted
    /\ nCalls < MaxCalls
    /\ last' = Call("getStored", key, "", NoOptions, FALSE, GetStored(key))
    /\ nCalls' = nCalls + 1
    /\ queue' = IF Truthy(GetStored(key))
                THEN Append(queue, MergeUpdater(key, GetStored(key)))
                ELSE queue
    /\ UNCHANGED <<hasWindow, props, searchParams, historyLength, storage,
                   localStorage, mounted, unmountError>>

CallGetStored(key) ==
    /\ mounted
    /\ nCalls < MaxCalls
    /\ last' = Call("getStored", key, "", NoOptions, FALSE, GetStored(key))
    /\ nCalls' = nCalls + 1
    /\ UNCHANGED <<hasWindow, props, searchParams, historyLength, storage,
                   queue, localStorage, mounted, unmountError>>

\* ------------------------------------------------------------- clearStored
\* The conditions of clearStored (lines 103, 114): the window guard alone, no
\* prop of the provider is read. The updater of line 108 is always queued.
ClearRemovesUrl == hasWindow
\* A clearStored that honours the provider's skipLocalStore.
ClearRemovesLocalStoreUnlessSkipped == hasWindow /\ ~skipLocalStore
ClearRemovesLocalStore == hasWindow

ClearStored(key) ==
    /\ mounted
    /\ nCalls < MaxCalls
    /\ IF ClearRemovesUrl
       THEN PushState(SearchParamsDelete(searchParams, key))
       ELSE UNCHANGED <<searchParams, historyLength>>
    /\ queue' = Append(queue, DeleteUpdater(key))
    /\ localStorage' = IF ClearRemovesLocalStore
                       THEN RemoveItem(localStorage, key)
                       ELSE localStorage
    /\ last' = Call("clearStored", key, "", NoOptions, FALSE, Undefined)
    /\ nCalls' = nCalls + 1
    /\ UNCHANGED <<hasWindow, props, storage, mounted, unmountError>>

\* ------------------------------------------------------------------ render
\* React re-renders the provider: every queued updater is applied, in order.
Render ==
    /\ mounted
    /\ queue # <<>>
    /\ storage' = ApplyQueue(storage, queue)
    /\ queue' = <<>>
    /\ UNCHANGED <<hasWindow, props, searchParams, historyLength, localStorage,
                   mounted, unmountError, last, nCalls>>

\* ----------------------------------------------------------------- unmount
\* The cleanup of the effect (lines 43-59). localStorage has no method named
\* delete: line 56 throws a TypeError for the first key it is run for (a
\* ReferenceError without a window), and removes nothing.
CleanupKeys == ObjectKeys(ClosureStorage)
CleanupThrows == clearLocalStoreOnUnmount /\ CleanupKeys # {}
\* A cleanup that pushes the address whatever clearUrlParamsOnUnmount is.
CleanupPushesAlways == hasWindow
\* Lines 45 and 50: the address is pushed with a window and the prop set.
CleanupPushes == hasWindow /\ clearUrlParamsOnUnmount

Unmount ==
    /\ mounted
    /\ mounted' = FALSE
    /\ IF CleanupPushes
       THEN PushState(DeleteEach(searchParams, CleanupKeys))
       ELSE UNCHANGED <<searchParams, historyLength>>
    /\ unmountError' = CleanupThrows
    /\ UNCHANGED <<hasWindow, props, storage, queue, localStorage, last, nCalls>>

Next ==
    \/ \E key \in Keys, value \in Values, options \in OptionObjects :
          Store(key, value, options)
    \/ \E key \in Keys : CallGetStored(key)
    \/ \E key \in Keys : ClearStored(key)
    \/ Render
    \/ Unmount

Spec == Init /\ [][Next]_vars

\* ================================================================== claims
\* What the address holds for a key: its values, in order.
UrlValues(params, key) == SelectSeq(params, LAMBDA p : p[1] = key)
InUrl(params, key) == FirstIndex(params, key, 1) # 0

\* No suppression at all: none by the provider, none by the call.
NoSuppression(call) ==
    /\ ~skipUrl /\ ~skipState /\ ~skipLocalStore
    /\ \A f \in DOMAIN call.options : ~call.options[f]

\* C1: in a page context, with every suppression flag false (the provider's
\* and the call's), getStored(k) after store([k, v]) returns v, whatever the
\* address, the state and localStorage held before.
C1_RoundTrip ==
    (hasWindow /\ last.op = "store" /\ NoSuppression(last))
        => GetStored(last.key) = last.value

\* C1 witness: such a store was the second call, on an address that held
\* the key before, and its state update has been rendered.
C1_Witness ==
    /\ hasWindow /\ last.op = "store" /\ NoSuppression(last)
    /\ nCalls = 2 /\ Len(searchParams) >= 2
    /\ queue = <<>> /\ last.key \in DOMAIN storage
    /\ GetStored(last.key) = "1"

\* C2 (as claimed): getStored(k) is the URL parameter k when that is neither
\* null nor empty, otherwise the state's entry for k, otherwise
\* localStorage's entry for k, otherwise null; and after a store([k, v]) that
\* skipped only the URL, with no k in the URL, getStored(k) is v.
ReadWithFallThrough(key) ==
    LET urlValue == IF hasWindow THEN SearchParamsGet(searchParams, key) ELSE Null
    IN IF urlValue \notin {Null, ""} THEN urlValue
       ELSE IF key \in DOMAIN storage THEN storage[key]
       ELSE IF key \in DOMAIN localStorage THEN localStorage[key]
       ELSE Null
C2_ReadPriorityFallThrough ==
    /\ \A key \in Keys : GetStored(key) = ReadWithFallThrough(key)
    /\ ( /\ last.op = "store"
         /\ ~skipState /\ ~skipLocalStore
         /\ Not(last.options, "skipState") /\ Not(last.options, "skipLocalStore")
         /\ (skipUrl \/ ~Not(last.options, "skipUrl"))
         /\ ~InUrl(searchParams, last.key) )
       => GetStored(last.key) = last.value

\* C3: after clearStored(k), getStored(k) returns null, whatever calls of
\* store, under whatever suppression flags, came before.
C3_ClearedReadsNull ==
    last.op = "clearStored" => GetStored(last.key) = Null

\* C3 witness: clearStored ran in a page context under a provider that
\* suppresses the URL, on a key that an earlier store had put in the state.
C3_Witness ==
    /\ last.op = "clearStored" /\ hasWindow /\ skipUrl
    /\ last.key \in DOMAIN storage /\ queue # <<>>

\* C4: clearStored is not gated by any suppression flag: in a page context,
\* under every setting of the provider's flags, once clearStored(k) has run
\* and its state update is applied, k is in none of the URL, the state and
\* localStorage.
C4_ClearUngated ==
    (hasWindow /\ last.op = "clearStored" /\ queue = <<>>)
        => /\ ~InUrl(searchParams, last.key)
           /\ last.key \notin DOMAIN storage
           /\ last.key \notin DOMAIN localStorage

\* C4 witness: clearStored ran and was rendered under a provider with the
\* three suppression flags set.
C4_Witness ==
    /\ hasWindow /\ last.op = "clearStored" /\ queue = <<>>
    /\ skipUrl /\ skipState /\ skipLocalStore
    /\ historyLength >= 2

\* C5 (as claimed): mounted with clearUrlParamsOnUnmount and without
\* clearLocalStoreOnUnmount, a key stored with no suppression and rendered
\* before the unmount is out of the URL after it, and still in localStorage.
C5_TeardownClearsUrl ==
    ( /\ ~mounted /\ hasWindow
      /\ clearUrlParamsOnUnmount /\ ~clearLocalStoreOnUnmount
      /\ last.op = "store" /\ NoSuppression(last)
      /\ queue = <<>> /\ Prop(storage, last.key) = last.value )
    => /\ ~InUrl(searchParams, last.key)
       /\ GetItem(localStorage, last.key) = last.value

\* C6 (as claimed): mounted with clearLocalStoreOnUnmount, every key of the
\* state at the unmount is out of localStorage after it, and the cleanup
\* raises no error.
C6_TeardownClearsLocalStore ==
    (~mounted /\ clearLocalStoreOnUnmount)
    => /\ \A key \in DOMAIN storage : key \notin DOMAIN localStorage
       /\ ~unmountError

\* A step that is a call of store, or of store or clearStored.
StoreStep == nCalls' = nCalls + 1 /\ last'.op = "store"
WriteStep == nCalls' = nCalls + 1 /\ last'.op \in {"store", "clearStored"}

\* The provider's flag of a name, and whether a call's target is suppressed:
\* by the provider or by the call.
ProviderFlag(flag) ==
    CASE flag = "skipUrl" -> skipUrl
      [] flag = "skipState" -> skipState
      [] flag = "skipLocalStore" -> skipLocalStore
Suppressed(call, flag) == ProviderFlag(flag) \/ ~Not(call.options, flag)

\* The state as it is once the queued updaters are applied.
Rendered(obj, q) == ApplyQueue(obj, q)

\* What C7 says of a call of store, this step: a suppressed target keeps what
\* it held for the key, every other target holds key = value.
SuppressionIndependent ==
    LET call == last'
        key == call.key
        value == call.value
    IN /\ IF Suppressed(call, "skipUrl")
          THEN UrlValues(searchParams', key) = UrlValues(searchParams, key)
          ELSE UrlValues(searchParams', key) = <<(<<key, value>>)>>
       /\ IF Suppressed(call, "skipState")
          THEN Prop(Rendered(storage', queue'), key)
               = Prop(Rendered(storage, queue), key)
          ELSE Prop(Rendered(storage', queue'), key) = value
       /\ IF Suppressed(call, "skipLocalStore")
          THEN GetItem(localStorage', key) = GetItem(localStorage, key)
          ELSE GetItem(localStorage', key) = value

\* C7 (as claimed, for the calls that return normally): in any context a
\* store leaves a suppressed target as it was for the key and makes every
\* other target hold key = value.
C7_SuppressionAnyContext ==
    [][(StoreStep /\ ~last'.threw) => SuppressionIndependent]_vars

\* C7 (amended): in a page context, a store leaves a suppressed target as it
\* was for the key and makes every target that is not suppressed hold
\* key = value (the state once the queued update is applied).
C7_SuppressionInPage ==
    [][(StoreStep /\ hasWindow) => SuppressionIndependent]_vars

\* C7 witness: in a page context a store suppressed localStorage alone, by its
\* option: localStorage holds something else, the URL and the state the value.
C7_Witness ==
    /\ hasWindow /\ last.op = "store"
    /\ ~skipUrl /\ ~skipState /\ ~skipLocalStore
    /\ ~Not(last.options, "skipLocalStore")
    /\ Not(last.options, "skipUrl") /\ Not(last.options, "skipState")
    /\ GetItem(localStorage, last.key) # last.value
    /\ SearchParamsGet(searchParams, last.key) = last.value
    /\ queue = <<>> /\ Prop(storage, last.key) = last.value

\* What a store that wrote a target shows, this step: a history entry was
\* pushed and the URL holds key = value; an updater was queued; localStorage
\* holds key = value. And what one that did not write it shows.
WroteUrl ==
    /\ historyLength' = historyLength + 1
    /\ SearchParamsGet(searchParams', last'.key) = last'.value
LeftUrl == historyLength' = historyLength /\ searchParams' = searchParams
WroteState == queue' = Append(queue, MergeUpdater(last'.key, last'.value))
LeftState == queue' = queue
WroteLocalStore == GetItem(localStorage', last'.key) = last'.value
LeftLocalStore == localStorage' = localStorage

\* The rule C8 claims: a flag the call gives replaces the provider's.
WritesByOverride(call, flag) ==
    IF flag \in DOMAIN call.options THEN ~call.options[flag]
    ELSE ~ProviderFlag(flag)
\* The rule of the code: a target is written when neither sets its flag.
WritesByEither(call, flag) ==
    ~ProviderFlag(flag) /\ Not(call.options, flag)

\* C8 (as claimed, in a page context): store writes a target exactly when the
\* call's flag for it is given and false, or is not given and the provider's
\* flag is false.
C8_PerCallOverride ==
    [][(StoreStep /\ hasWindow) =>
        /\ IF WritesByOverride(last', "skipUrl") THEN WroteUrl ELSE LeftUrl
        /\ IF WritesByOverride(last', "skipState") THEN WroteState ELSE LeftState
        /\ IF WritesByOverride(last', "skipLocalStore")
           THEN WroteLocalStore ELSE LeftLocalStore]_vars

\* C8 (amended): in a page context the provider's flag and the call's add up:
\* store writes a target exactly when the provider's flag for it is false and
\* the call's flag is absent or false; under a provider with skipUrl, a
\* store with {skipUrl: false} leaves the URL as it was.
C8_PerCallAddsUp ==
    [][(StoreStep /\ hasWindow) =>
        /\ IF WritesByEither(last', "skipUrl") THEN WroteUrl ELSE LeftUrl
        /\ IF WritesByEither(last', "skipState") THEN WroteState ELSE LeftState
        /\ IF WritesByEither(last', "skipLocalStore")
           THEN WroteLocalStore ELSE LeftLocalStore]_vars

\* C8 witness: under a provider with skipUrl, a store was called with
\* {skipUrl: false}: no history entry was added and the URL lacks the value.
C8_Witness ==
    /\ hasWindow /\ skipUrl /\ last.op = "store"
    /\ DOMAIN last.options = {"skipUrl"} /\ ~last.options["skipUrl"]
    /\ historyLength = 1
    /\ SearchParamsGet(searchParams, last.key) # last.value

UpdatesAddress(call) ==
    /\ hasWindow
    /\ call.op = "store" => WritesByEither(call, "skipUrl")

\* C10 (as claimed): store and clearStored leave the number of entries of the
\* session history as it was.
C10_HistoryInPlace ==
    [][WriteStep => historyLength' = historyLength]_vars

\* C10 (amended): a store or clearStored that updates the address adds
\* exactly one entry to the session history, and one that does not update the
\* address leaves the history as it was.
C10_HistoryPushed ==
    [][WriteStep =>
        historyLength' = historyLength
                         + (IF UpdatesAddress(last') THEN 1 ELSE 0)]_vars

\* C10 witness: two calls, the second a clearStored, made the history grow
\* from its one entry to three.
C10_Witness ==
    hasWindow /\ last.op = "clearStored" /\ nCalls = 2 /\ historyLength = 3

\* C11: store([k, v], options) called twice in a row leaves the URL, the
\* state (once the queued updates are applied) and localStorage as the first
\* call left them.
C11_StoreIdempotent ==
    [][(StoreStep /\ last.op = "store" /\ last' = last) =>
        /\ searchParams' = searchParams
        /\ Rendered(storage', queue') = Rendered(storage, queue)
        /\ localStorage' = localStorage]_vars

\* C11 witness: the same unsuppressed store was called twice in a page
\* context whose address held the key twice: both updaters wait in the queue
\* and the address holds the key once.
C11_Witness ==
    /\ hasWindow /\ last.op = "store" /\ NoSuppression(last) /\ nCalls = 2
    /\ queue = <<MergeUpdater(last.key, last.value),
                 MergeUpdater(last.key, last.value)>>
    /\ Len(searchParams) = 2
    /\ UrlValues(searchParams, last.key) = <<(<<last.key, last.value>>)>>
    /\ GetItem(localStorage, last.key) = last.value

\* C12 (as claimed): without a window, store([k, v]) with no suppression flag
\* touches neither the URL nor localStorage, raises no error, and merges
\* k = v into the state.
C12_StoreWithoutWindow ==
    (~hasWindow /\ last.op = "store" /\ NoSuppression(last))
    => /\ ~last.threw
       /\ searchParams = <<>> /\ historyLength = 0
       /\ localStorage = EmptyObject
       /\ Prop(Rendered(storage, queue), last.key) = last.value

\* The first value the address holds for a key.
FirstUrlValue(params, key) == UrlValues(params, key)[1][2]

\* C13: in a page context, when the URL holds k = A and localStorage holds
\* k = B with A # B, getStored(k) returns A, whatever the state holds.
C13_UrlBeforeLocalStore ==
    \A key \in Keys :
        ( /\ hasWindow
          /\ InUrl(searchParams, key) /\ key \in DOMAIN localStorage
          /\ FirstUrlValue(searchParams, key) # localStorage[key] )
        => GetStored(key) = FirstUrlValue(searchParams, key)

\* C13 witness: getStored returned "1" from the URL while localStorage and
\* the state hold another value for the key.
C13_Witness ==
    /\ hasWindow /\ last.op = "getStored" /\ last.returned = "1"
    /\ FirstUrlValue(searchParams, last.key) = "1"
    /\ GetItem(localStorage, last.key) = ""
    /\ Prop(storage, last.key) = ""

MergedKeys(q) == {q[i].key : i \in {j \in 1..Len(q) : q[j].type = "merge"}}

\* C15: every key of the state was passed to an earlier store whose state
\* write was not suppressed: a key enters the state only from a queued merge
\* updater, a merge updater is queued only by such a store and for its key,
\* and neither getStored nor clearStored adds a key, now or once rendered.
C15_MappingKeysFromStore ==
    [][/\ ((DOMAIN storage') \ (DOMAIN storage)) \subseteq MergedKeys(queue)
       /\ \A i \in 1..Len(queue') :
             (i > Len(queue) /\ queue'[i].type = "merge")
             => /\ StoreStep
                /\ ~Suppressed(last', "skipState")
                /\ queue'[i].key = last'.key
       /\ (nCalls' = nCalls + 1 /\ last'.op \in {"getStored", "clearStored"})
          => /\ DOMAIN storage' \subseteq DOMAIN storage
             /\ DOMAIN Rendered(storage', queue')
                \subseteq DOMAIN Rendered(storage, queue)]_vars

\* C15 witness: one key was stored and rendered, then clearStored of the
\* other key was called and rendered: the state holds the stored key alone.
C15_Witness ==
    /\ last.op = "clearStored" /\ nCalls = 2 /\ queue = <<>>
    /\ DOMAIN storage = Keys \ {last.key}

\* C16 (as claimed, for a truthy value): without a window, once a store([k,
\* v]) whose state write was not suppressed is applied and the provider has
\* re-rendered, getStored(k) returns v.
C16_ReadStateWithoutWindow ==
    ( /\ ~hasWindow /\ mounted
      /\ last.op = "store" /\ ~Suppressed(last, "skipState")
      /\ Truthy(last.value)
      /\ queue = <<>> /\ Prop(storage, last.key) = last.value )
    => GetStored(last.key) = last.value

\* C17: an unmount without clearUrlParamsOnUnmount leaves the address and the
\* session history as they were, and one without clearLocalStoreOnUnmount
\* leaves localStorage as it was, whatever the state holds.
C17_TeardownWithoutFlags ==
    [][(mounted /\ ~mounted') =>
        /\ ~clearUrlParamsOnUnmount
           => (searchParams' = searchParams /\ historyLength' = historyLength)
        /\ ~clearLocalStoreOnUnmount => localStorage' = localStorage]_vars

\* C17 witness: a provider with neither prop was unmounted in a page context
\* with a key in its state, in the URL and in localStorage.
C17_Witness ==
    /\ ~mounted /\ hasWindow
    /\ ~clearUrlParamsOnUnmount /\ ~clearLocalStoreOnUnmount
    /\ \E key \in DOMAIN storage :
          InUrl(searchParams, key) /\ key \in DOMAIN localStorage

\* A step that is a call of clearStored.
ClearStep == nCalls' = nCalls + 1 /\ last'.op = "clearStored"

\* C18 (as claimed): under a provider with skipLocalStore, clearStored(k)
\* leaves localStorage's entry for k as it was.
C18_ClearHonoursSkipLocalStore ==
    [][(ClearStep /\ skipLocalStore) =>
        GetItem(localStorage', last'.key) = GetItem(localStorage, last'.key)]_vars

\* C18 (amended): clearStored does not read skipLocalStore: under a provider
\* with skipLocalStore, clearStored(k) in a page context removes k from
\* localStorage and leaves its other entries; without a window it leaves
\* localStorage alone.
C18_ClearIgnoresSkipLocalStore ==
    [][(ClearStep /\ skipLocalStore) =>
        IF hasWindow
        THEN /\ last'.key \notin DOMAIN localStorage'
             /\ \A other \in Keys \ {last'.key} :
                   GetItem(localStorage', other) = GetItem(localStorage, other)
        ELSE localStorage' = localStorage]_vars

\* C18 witness: under a provider with skipLocalStore, whose stores never
\* write localStorage, clearStored("a") was the first call and localStorage
\* is left with "b" alone.
C18_Witness ==
    /\ hasWindow /\ skipLocalStore
    /\ last.op = "clearStored" /\ last.key = "a" /\ nCalls = 1
    /\ DOMAIN localStorage = {"b"}

\* The three hold one value for a key, the URL holding the key once, or none
\* of them holds the key.
Agree(params, obj, items, key) ==
    \/ /\ UrlValues(params, key) = <<>>
       /\ key \notin DOMAIN obj
       /\ key \notin DOMAIN items
    \/ /\ Len(UrlValues(params, key)) = 1
       /\ key \in DOMAIN obj /\ key \in DOMAIN items
       /\ obj[key] = FirstUrlValue(params, key)
       /\ items[key] = FirstUrlValue(params, key)

\* C19: in a page context with no suppression flag set, a store or a
\* clearStored makes the URL, the state (once the queued updates are applied)
\* and localStorage agree on its key, and no later call or render undoes the
\* agreement on any key.
C19_MirrorAgreement ==
    [][( /\ hasWindow /\ ~skipUrl /\ ~skipState /\ ~skipLocalStore
         /\ mounted'
         /\ nCalls' = nCalls + 1 => NoSuppression(last') )
       => /\ WriteStep =>
                Agree(searchParams', Rendered(storage', queue'),
                      localStorage', last'.key)
          /\ \A key \in Keys :
                Agree(searchParams, Rendered(storage, queue), localStorage, key)
                => Agree(searchParams', Rendered(storage', queue'),
                         localStorage', key)]_vars

\* C19 witness: under a provider without flags a key was stored and then
\* cleared: none of the three holds it, while the other key, which no call
\* touched, is in the URL and in localStorage and not in the state.
C19_Witness ==
    /\ hasWindow /\ ~skipUrl /\ ~skipState /\ ~skipLocalStore
    /\ last.op = "clearStored" /\ nCalls = 2
    /\ queue = <<MergeUpdater(last.key, "1"), DeleteUpdater(last.key)>>
    /\ Agree(searchParams, Rendered(storage, queue), localStorage, last.key)
    /\ \E other \in Keys \ {last.key} :
          /\ InUrl(searchParams, other) /\ other \in DOMAIN localStorage
          /\ other \notin DOMAIN Rendered(storage, queue)

\* C20: a call of getStored leaves the URL, the session history, the state,
\* the queue of pending updates and localStorage as they were.
C20_GetStoredPureRead ==
    [][(nCalls' = nCalls + 1 /\ last'.op = "getStored") =>
        /\ searchParams' = searchParams
        /\ historyLength' = historyLength
        /\ storage' = storage
        /\ queue' = queue
        /\ localStorage' = localStorage]_vars

\* C20 witness: getStored returned "1" from the URL while an update of the
\* key waits in the queue and the state does not hold the key.
C20_Witness ==
    /\ last.op = "getStored" /\ last.returned = "1" /\ nCalls = 2
    /\ queue # <<>> /\ last.key \notin DOMAIN storage
    /\ queue[1].key = last.key

====
